---- MODULE Spec2Model ----
(***************************************************************************)
(* Model of gridmeter.utils.calculate_distances.calculate_distances: the   *)
(* chunked nearest-neighbour engine.  One behaviour is one invocation.     *)
(* Arrays are records [shape |-> <<rows, cols>>, a |-> rows of values], so *)
(* that an array with zero rows still has a column count, as in numpy.     *)
(* Column positions and pool identifiers are 0-based, as in the source.    *)
(***************************************************************************)
EXTENDS Integers, Sequences, FiniteSets, TLC

VARIABLES ls_t, ls_cp, dist_metric, n_matches_per_treatment, n_meters_per_chunk,
          n_smallest, n_chunk_smallest, dist, cp_id_idx, pos, pc

vars == <<ls_t, ls_cp, dist_metric, n_matches_per_treatment, n_meters_per_chunk,
          n_smallest, n_chunk_smallest, dist, cp_id_idx, pos, pc>>

inputs == <<ls_t, ls_cp, dist_metric, n_matches_per_treatment, n_meters_per_chunk>>

\* An optional integer argument: Python's None (the "all" sentinel of
\* n_matches_per_treatment), or Some(k) holding the integer k = Val(Some(k)).
None == <<>>

Some(k) == <<k>>

Val(o) == o[1]

\* Largest comparison pool explored (rows of ls_cp).
MaxCp == 3

----------------------------------------------------------------------------
(* Arithmetic and array helpers *)

Min(x, y) == IF x < y THEN x ELSE y

Max(x, y) == IF x > y THEN x ELSE y

Abs(x) == IF x < 0 THEN -x ELSE x

RECURSIVE SumTo(_, _)
\* sum of f[1..n]
SumTo(f, n) == IF n = 0 THEN 0 ELSE f[n] + SumTo(f, n - 1)

IsSquare(n) == \E r \in 0..n : r * r = n

\* Exact square root; the inputs explored keep every radicand a perfect square.
Sqrt(n) == CHOOSE r \in 0..n : r * r = n

\* A FeatureMatrix from its rows and its feature dimensionality.
FromRows(rows, d) == [shape |-> <<Len(rows), d>>, a |-> rows]

----------------------------------------------------------------------------
(* scipy.spatial.distance.cdist *)

cityblock(u, v) == SumTo([k \in 1..Len(u) |-> Abs(u[k] - v[k])], Len(u))

sqeuclidean(u, v) ==
    SumTo([k \in 1..Len(u) |-> (u[k] - v[k]) * (u[k] - v[k])], Len(u))

\* A slip: the square root left out.
euclideanNoRoot(u, v) == sqeuclidean(u, v)

euclidean(u, v) == Sqrt(sqeuclidean(u, v))

Metric(m, u, v) == IF m = "euclidean" THEN euclidean(u, v) ELSE cityblock(u, v)

\* cdist raises ValueError when XA and XB differ in their number of columns.
cdistRaises(XA, XB) == XA.shape[2] # XB.shape[2]

cdist(XA, XB, m) ==
    [shape |-> <<XA.shape[1], XB.shape[1]>>,
     a |-> [i \in 1..XA.shape[1] |->
              [j \in 1..XB.shape[1] |-> Metric(m, XA.a[i], XB.a[j])]]]

----------------------------------------------------------------------------
(* gridmeter.utils.misc.chunks: the partitioner *)

\* The generator raises for a non-positive chunk size.
chunksRaises(n) == n <= 0

\* The generator is exhausted once every row has been yielded.
chunksDone(X, p) == p >= X.shape[1]

\* idx_chunk: the absolute row indices p, p+1, ... of the chunk starting at p.
chunkIdx(X, n, p) == [k \in 1..(Min(p + n, X.shape[1]) - p) |-> p + k - 1]

\* ls_cp_chunk: the rows of X the chunk covers.
chunkRows(X, n, p) ==
    LET idx == chunkIdx(X, n, p)
    IN  FromRows([k \in 1..Len(idx) |-> X.a[idx[k] + 1]], X.shape[2])

----------------------------------------------------------------------------
(* numpy primitives *)

\* A slip: every row holds the column positions 0, 1, ... instead of v.
tileOfPositions(v, nr) ==
    [shape |-> <<nr, Len(v)>>, a |-> [i \in 1..nr |-> [j \in 1..Len(v) |-> j - 1]]]

\* np.tile(v, (nr, 1)): nr copies of the 1-D array v, one per row.
tile(v, nr) ==
    [shape |-> <<nr, Len(v)>>, a |-> [i \in 1..nr |-> [j \in 1..Len(v) |-> v[j]]]]

\* np.arange(n) as a 1-D array.
arange(n) == [k \in 1..n |-> k - 1]

\* A slip: the slice keeps one column more than asked for.
SliceLenOneMore(n, k) == (IF k < 0 THEN Max(n + k, 0) ELSE Min(k, n)) + 1

\* The length of a[:k] for a of length n (Python slicing, k may be negative).
SliceLen(n, k) == IF k < 0 THEN Max(n + k, 0) ELSE Min(k, n)

\* argpartition raises ValueError when kth is out of bounds for the axis,
\* unless the array has no element at all.
argpartitionRaises(A, kth) ==
    /\ A.shape[1] * A.shape[2] # 0
    /\ kth >= A.shape[2] \/ kth < -A.shape[2]

Perms(n) == {p \in [1..n -> 0..(n - 1)] : \A i, j \in 1..n : i # j => p[i] # p[j]}

\* A slip: the row is partitioned around position kth + 1 instead of kth.
argpartitionOffByOne(row, kth) ==
    LET n == Len(row)
        k0 == IF kth < 0 THEN kth + n ELSE kth
        k == IF k0 + 1 < n THEN k0 + 1 ELSE k0
    IN  {p \in [1..n -> 0..(n - 1)] :
            /\ \A i, j \in 1..n : i # j => p[i] # p[j]
            /\ \A j \in 1..k : row[p[j] + 1] <= row[p[k + 1] + 1]
            /\ \A j \in (k + 2)..n : row[p[j] + 1] >= row[p[k + 1] + 1]}

\* np.argpartition on one row: every index order numpy's contract allows.  The
\* element at position kth is in its sorted place, smaller-or-equal ones are
\* before it and larger-or-equal ones after it, each side in undefined order.
argpartition(row, kth) ==
    LET n == Len(row)
        k == IF kth < 0 THEN kth + n ELSE kth
    IN  {p \in Perms(n) :
            /\ \A j \in 1..k : row[p[j] + 1] <= row[p[k + 1] + 1]
            /\ \A j \in (k + 2)..n : row[p[j] + 1] >= row[p[k + 1] + 1]}

RECURSIVE RowChoices(_, _)
\* the sequences taking their i-th element from H[i], for i in 1..n
RowChoices(H, n) ==
    IF n = 0 THEN {<<>>}
    ELSE {Append(f, h) : f \in RowChoices(H, n - 1), h \in H[n]}

\* np.argpartition(A, kth, axis=1)[:, :kth]: the index arrays it can return,
\* each row partitioned on its own.
argpartitionHead(A, kth) ==
    LET nr == A.shape[1]
        m  == SliceLen(A.shape[2], kth)
        H  == [i \in 1..nr |->
                 IF A.shape[2] = 0 THEN {<<>>}
                 ELSE {SubSeq(p, 1, m) : p \in argpartition(A.a[i], kth)}]
    IN  {[shape |-> <<nr, m>>, a |-> f] : f \in RowChoices(H, nr)}

\* A[np.arange(A.shape[0])[:, None], idx]: row i of A read at the columns idx[i].
takeAlong(A, idx) ==
    [shape |-> idx.shape,
     a |-> [i \in 1..idx.shape[1] |->
              [j \in 1..idx.shape[2] |-> A.a[i][idx.a[i][j] + 1]]]]

\* lines 23-25 and 34, 38-39: the (identifier, distance) arrays a partial
\* selection of kth columns can leave, the same idx applied to both arrays.
selectColumns(ids, ds, kth) ==
    {<<takeAlong(ids, idx), takeAlong(ds, idx)>> : idx \in argpartitionHead(ds, kth)}

\* lines 36, 38-39: every column kept, read through idx = tile(arange(columns)).
keepColumns(ids, ds) ==
    LET idx == tile(arange(ds.shape[2]), ds.shape[1])
    IN  <<takeAlong(ids, idx), takeAlong(ds, idx)>>

RECURSIVE FlatRow(_, _, _)
\* row i of arrays[1..n] laid side by side
FlatRow(arrays, i, n) ==
    IF n = 0 THEN <<>> ELSE FlatRow(arrays, i, n - 1) \o arrays[n].a[i]

\* np.hstack raises ValueError on an empty list of arrays.
hstackRaises(arrays) == Len(arrays) = 0

hstack(arrays) ==
    LET nr == arrays[1].shape[1]
        nc == SumTo([k \in 1..Len(arrays) |-> arrays[k].shape[2]], Len(arrays))
    IN  [shape |-> <<nr, nc>>, a |-> [i \in 1..nr |-> FlatRow(arrays, i, Len(arrays))]]

----------------------------------------------------------------------------
(* Inputs explored *)

\* Treatment matrices: no row, one row, two different rows.
TreatmentInputs ==
    { FromRows(<<>>, 2), FromRows(<< <<0, 0>> >>, 2),
      FromRows(<< <<0, 0>>, <<3, 0>> >>, 2),
      FromRows(<<>>, 3), FromRows(<< <<0, 0, 0>> >>, 3) }

\* Comparison-pool rows: a = (1,0), b = (0,5), c = (3,4), and a 3-feature row.
PoolRows(d) == IF d = 2 THEN {<<1, 0>>, <<0, 5>>, <<3, 4>>} ELSE {<<1, 0, 0>>}

SeqsUpTo(S, n) == UNION {[1..k -> S] : k \in 0..n}

PoolInputs ==
    UNION {{FromRows(r, d) : r \in SeqsUpTo(PoolRows(d), MaxCp)} : d \in {2, 3}}

Metrics == {"euclidean", "cityblock"}

KValues == {None} \cup {Some(k) : k \in -2..MaxCp}

ChunkSizes == 0..MaxCp

\* Every distance of the invocation is an integer under the metric.
Representable(XA, XB, m) ==
    m = "euclidean" /\ XA.shape[2] = XB.shape[2] =>
        \A i \in 1..XA.shape[1], j \in 1..XB.shape[1] :
            IsSquare(sqeuclidean(XA.a[i], XB.a[j]))

----------------------------------------------------------------------------
(* calculate_distances *)

Init ==
    /\ ls_t \in TreatmentInputs
    /\ ls_cp \in PoolInputs
    /\ dist_metric \in Metrics
    /\ Representable(ls_t, ls_cp, dist_metric)
    /\ n_matches_per_treatment \in KValues
    /\ n_meters_per_chunk \in ChunkSizes
    /\ n_smallest = None
    /\ n_chunk_smallest = None
    /\ dist = <<>>
    /\ cp_id_idx = <<>>
    /\ pos = 0
    /\ pc = "start"

\* lines 8-10: the number of columns the global selection keeps.
nSmallest(k, ncp) ==
    IF k = None THEN ncp ELSE IF Val(k) > ncp THEN ncp ELSE Val(k)

\* A slip: the per-chunk count ignores K, so no chunk ever discards a column.
nChunkSmallestWhole(k, n) == n

\* A slip: a chunk keeps one column fewer than the count asked for.
nChunkSmallestShort(k, n) ==
    IF k = None THEN n ELSE IF Val(k) > n THEN n - 1 ELSE Val(k) - 1

\* lines 8, 12-13: the number of columns kept of one chunk.
nChunkSmallest(k, n) ==
    IF k = None THEN n ELSE IF Val(k) > n THEN n ELSE Val(k)

\* lines 8-16: clamp the two selection counts, start with empty lists.
Clamp ==
    /\ pc = "start"
    /\ n_smallest' = nSmallest(n_matches_per_treatment, ls_cp.shape[1])
    /\ n_chunk_smallest' = nChunkSmallest(n_matches_per_treatment, n_meters_per_chunk)
    /\ dist' = <<>>
    /\ cp_id_idx' = <<>>
    /\ pos' = 0
    /\ pc' = "loop"
    /\ UNCHANGED inputs

chunked_dist == cdist(ls_t, chunkRows(ls_cp, n_meters_per_chunk, pos), dist_metric)

chunked_cp_id_idx == tile(chunkIdx(ls_cp, n_meters_per_chunk, pos), chunked_dist.shape[1])

\* line 17: the partitioner rejects the chunk size.
ChunksRaise ==
    /\ pc = "loop"
    /\ chunksRaises(n_meters_per_chunk)
    /\ pc' = "error"
    /\ UNCHANGED <<inputs, n_smallest, n_chunk_smallest, dist, cp_id_idx, pos>>

\* line 18: cdist rejects the chunk (feature dimensionality differs).
CdistRaise ==
    /\ pc = "loop"
    /\ ~chunksRaises(n_meters_per_chunk)
    /\ ~chunksDone(ls_cp, pos)
    /\ cdistRaises(ls_t, chunkRows(ls_cp, n_meters_per_chunk, pos))
    /\ pc' = "error"
    /\ UNCHANGED <<inputs, n_smallest, n_chunk_smallest, dist, cp_id_idx, pos>>

\* lines 21-25: the chunk holds more columns than are kept; partial selection.
ChunkSelect ==
    /\ pc = "loop"
    /\ ~chunksRaises(n_meters_per_chunk)
    /\ ~chunksDone(ls_cp, pos)
    /\ ~cdistRaises(ls_t, chunkRows(ls_cp, n_meters_per_chunk, pos))
    /\ n_chunk_smallest < chunked_dist.shape[2]
    /\ ~argpartitionRaises(chunked_dist, n_chunk_smallest)
    /\ \E o \in selectColumns(chunked_cp_id_idx, chunked_dist, n_chunk_smallest) :
          /\ cp_id_idx' = Append(cp_id_idx, o[1])
          /\ dist' = Append(dist, o[2])
    /\ pos' = pos + n_meters_per_chunk
    /\ UNCHANGED <<inputs, n_smallest, n_chunk_smallest, pc>>

\* line 23: argpartition rejects kth (a negative count below -columns).
ChunkSelectRaise ==
    /\ pc = "loop"
    /\ ~chunksRaises(n_meters_per_chunk)
    /\ ~chunksDone(ls_cp, pos)
    /\ ~cdistRaises(ls_t, chunkRows(ls_cp, n_meters_per_chunk, pos))
    /\ n_chunk_smallest < chunked_dist.shape[2]
    /\ argpartitionRaises(chunked_dist, n_chunk_smallest)
    /\ pc' = "error"
    /\ UNCHANGED <<inputs, n_smallest, n_chunk_smallest, dist, cp_id_idx, pos>>

\* lines 26-28: the whole chunk is kept.
ChunkKeep ==
    /\ pc = "loop"
    /\ ~chunksRaises(n_meters_per_chunk)
    /\ ~chunksDone(ls_cp, pos)
    /\ ~cdistRaises(ls_t, chunkRows(ls_cp, n_meters_per_chunk, pos))
    /\ ~(n_chunk_smallest < chunked_dist.shape[2])
    /\ cp_id_idx' = Append(cp_id_idx, chunked_cp_id_idx)
    /\ dist' = Append(dist, chunked_dist)
    /\ pos' = pos + n_meters_per_chunk
    /\ UNCHANGED <<inputs, n_smallest, n_chunk_smallest, pc>>

\* lines 30-31: the loop is over; stack the per-chunk arrays side by side.
Stack ==
    /\ pc = "loop"
    /\ ~chunksRaises(n_meters_per_chunk)
    /\ chunksDone(ls_cp, pos)
    /\ ~hstackRaises(dist)
    /\ dist' = hstack(dist)
    /\ cp_id_idx' = hstack(cp_id_idx)
    /\ pc' = "stacked"
    /\ UNCHANGED <<inputs, n_smallest, n_chunk_smallest, pos>>

\* line 30: np.hstack of an empty list (no chunk was yielded).
StackRaise ==
    /\ pc = "loop"
    /\ ~chunksRaises(n_meters_per_chunk)
    /\ chunksDone(ls_cp, pos)
    /\ hstackRaises(dist)
    /\ pc' = "error"
    /\ UNCHANGED <<inputs, n_smallest, n_chunk_smallest, dist, cp_id_idx, pos>>

\* lines 33-34, 38-41: global partial selection of the n_smallest columns.
GlobalSelect ==
    /\ pc = "stacked"
    /\ n_smallest < dist.shape[2]
    /\ ~argpartitionRaises(dist, n_smallest)
    /\ \E o \in selectColumns(cp_id_idx, dist, n_smallest) :
          /\ cp_id_idx' = o[1]
          /\ dist' = o[2]
    /\ pc' = "done"
    /\ UNCHANGED <<inputs, n_smallest, n_chunk_smallest, pos>>

\* line 34: argpartition rejects kth.
GlobalSelectRaise ==
    /\ pc = "stacked"
    /\ n_smallest < dist.shape[2]
    /\ argpartitionRaises(dist, n_smallest)
    /\ pc' = "error"
    /\ UNCHANGED <<inputs, n_smallest, n_chunk_smallest, dist, cp_id_idx, pos>>

\* lines 35-41: every accumulated column is returned, in accumulation order.
GlobalKeep ==
    /\ pc = "stacked"
    /\ ~(n_smallest < dist.shape[2])
    /\ cp_id_idx' = keepColumns(cp_id_idx, dist)[1]
    /\ dist' = keepColumns(cp_id_idx, dist)[2]
    /\ pc' = "done"
    /\ UNCHANGED <<inputs, n_smallest, n_chunk_smallest, pos>>

Next ==
    \/ Clamp
    \/ ChunksRaise
    \/ CdistRaise
    \/ ChunkSelect
    \/ ChunkSelectRaise
    \/ ChunkKeep
    \/ Stack
    \/ StackRaise
    \/ GlobalSelect
    \/ GlobalSelectRaise
    \/ GlobalKeep

Spec == Init /\ [][Next]_vars

----------------------------------------------------------------------------
(* calculate_distances as a relation from its arguments to its return values, *)
(* for arguments no step rejects: the same steps, composed.                  *)

\* lines 18-28: what one chunk appends to (cp_id_idx, dist).
chunkCandidates(XT, XCP, m, n, p, M) ==
    LET cd == cdist(XT, chunkRows(XCP, n, p), m)
        ci == tile(chunkIdx(XCP, n, p), cd.shape[1])
    IN  IF M < cd.shape[2] THEN selectColumns(ci, cd, M) ELSE {<<ci, cd>>}

RECURSIVE accumulated(_, _, _, _, _, _)
\* lines 15-28: the lists (cp_id_idx, dist) the loop can build from row p on.
accumulated(XT, XCP, m, n, p, M) ==
    IF chunksDone(XCP, p) THEN {<< <<>>, <<>> >>}
    ELSE {<< <<o[1]>> \o r[1], <<o[2]>> \o r[2] >> :
              o \in chunkCandidates(XT, XCP, m, n, p, M),
              r \in accumulated(XT, XCP, m, n, p + n, M)}

\* lines 30-41: the return values for one pair of accumulated lists.
globalCandidates(ids, ds, k) ==
    IF k < ds.shape[2] THEN selectColumns(ids, ds, k) ELSE {keepColumns(ids, ds)}

\* lines 7-41: every (cp_id_idx, dist) the call can return.
calculate_distances(XT, XCP, m, k, n) ==
    UNION {globalCandidates(hstack(acc[1]), hstack(acc[2]), nSmallest(k, XCP.shape[1])) :
              acc \in accumulated(XT, XCP, m, n, 0, nChunkSmallest(k, n))}

----------------------------------------------------------------------------
(* Vocabulary of the properties *)

n_t == ls_t.shape[1]

n_cp == ls_cp.shape[1]

Done == pc = "done"

Failed == pc = "error"

\* K as the specification reads it: the sentinel means the whole pool.
K == IF n_matches_per_treatment = None THEN n_cp ELSE Val(n_matches_per_treatment)

ValidK ==
    IF n_matches_per_treatment = None THEN TRUE ELSE Val(n_matches_per_treatment) >= 1

ValidChunkSize == n_meters_per_chunk >= 1

SameFeatures == ls_t.shape[2] = ls_cp.shape[2]

ValidInput == ValidK /\ ValidChunkSize /\ n_t >= 1 /\ SameFeatures

Ascending(s) == SortSeq(s, LAMBDA x, y : x < y)

\* Brute force: row i's distances to every pool row, fully sorted, cut to k.
BruteForce(i, k) ==
    SubSeq(Ascending(cdist(ls_t, ls_cp, dist_metric).a[i]), 1, k)

NonDecreasing(s) == \A j \in 1..(Len(s) - 1) : s[j] <= s[j + 1]

\* The (identifier, distance) pairs of row i of a result <<ids, ds>>.
Pairs(res, i) == {<<res[1].a[i][j], res[2].a[i][j]>> : j \in 1..res[2].shape[2]}

\* Row i has a tie at the K-th boundary: the K-th and (K+1)-th smallest
\* distances are equal.
BoundaryTie(i) ==
    /\ K < n_cp
    /\ BruteForce(i, K + 1)[K] = BruteForce(i, K + 1)[K + 1]

\* Every result a run returns is one the relation holds of its arguments.
ReturnsInRelation ==
    (Done /\ ValidInput) =>
        <<cp_id_idx, dist>> \in
            calculate_distances(ls_t, ls_cp, dist_metric,
                                n_matches_per_treatment, n_meters_per_chunk)

----------------------------------------------------------------------------
(* Properties *)

\* C1 (Exactness): for 1 <= K <= n_cp and 1 <= C <= n_cp, the distances
\* returned for each treatment row are, as a multiset, exactly the K smallest
\* of that row's distances to all comparison rows (brute force, full sort,
\* cut to K).
C1_Exactness ==
    (Done /\ n_matches_per_treatment # None /\ K \in 1..n_cp
          /\ n_meters_per_chunk \in 1..n_cp) =>
        \A i \in 1..n_t : Ascending(dist.a[i]) = BruteForce(i, K)

\* A call with two treatment rows where both the per-chunk and the global
\* selection discarded columns (K < C < n_cp) has returned.
C1_Witness ==
    /\ Done /\ n_t = 2 /\ n_cp = 3
    /\ n_matches_per_treatment = Some(1) /\ n_meters_per_chunk = 2
    /\ dist.shape = <<2, 1>>
    /\ cp_id_idx.a[1] # cp_id_idx.a[2]

\* C2 as stated (Chunk-size invariance): the set of (identifier, distance)
\* pairs returned for each treatment row is the same for any two valid chunk
\* sizes, ties at the K-th distance included.
C2_PairsInvariant ==
    (Done /\ ValidInput) =>
        \A n2 \in 1..MaxCp :
            \A res \in calculate_distances(ls_t, ls_cp, dist_metric,
                                           n_matches_per_treatment, n2) :
                \A i \in 1..n_t : Pairs(res, i) = Pairs(<<cp_id_idx, dist>>, i)

\* The pairs (identifier, distance) of the pool rows no farther from treatment
\* row i than its k-th nearest pool row.
NearestPairs(i, k) ==
    LET row == cdist(ls_t, ls_cp, dist_metric).a[i]
    IN  {<<j - 1, row[j]>> : j \in {c \in 1..n_cp : row[c] <= BruteForce(i, k)[k]}}

\* C2 amended: for any two valid chunk sizes the multiset of distances
\* returned for each treatment row is the same, and the set of (identifier,
\* distance) pairs is the same for every row that has no tie at the K-th
\* boundary.  Both are stated here by a value that does not mention the chunk
\* size (the brute-force distances, the nearest rows), which every returning
\* run equals whatever its chunk size: two runs that differ in the chunk size
\* alone therefore agree.
C2_DistancesInvariant ==
    (Done /\ ValidInput) =>
        \A i \in 1..n_t :
            /\ Ascending(dist.a[i]) = BruteForce(i, Min(K, n_cp))
            /\ ~BoundaryTie(i) =>
                  Pairs(<<cp_id_idx, dist>>, i) = NearestPairs(i, Min(K, n_cp))

\* A call with K < C = n_cp has returned, one row with a tie at the K-th
\* boundary and the other with none.
C2_Witness ==
    /\ Done /\ ValidInput /\ n_t = 2 /\ n_cp = 3
    /\ n_matches_per_treatment = Some(2) /\ n_meters_per_chunk = 3
    /\ BoundaryTie(1) /\ ~BoundaryTie(2)

\* C3 (Ordering): for every treatment row the returned distances are
\* non-decreasing by rank.
C3_Ordering ==
    (Done /\ ValidInput) => \A i \in 1..n_t : NonDecreasing(dist.a[i])

\* C4 (Size contract): for every valid input (K >= 1 or the sentinel, C >= 1,
\* n_t >= 1, any n_cp) the call raises no error and the result holds exactly
\* min(K, n_cp) entries for every treatment row.
C4_SizeContract ==
    ValidInput =>
        /\ ~Failed
        /\ Done => /\ dist.shape = <<n_t, Min(K, n_cp)>>
                   /\ cp_id_idx.shape = <<n_t, Min(K, n_cp)>>

\* The size contract on the inputs with at least one comparison row.
SizeContractNonEmptyPool ==
    (ValidInput /\ n_cp >= 1) =>
        /\ ~Failed
        /\ Done => /\ dist.shape = <<n_t, Min(K, n_cp)>>
                   /\ cp_id_idx.shape = <<n_t, Min(K, n_cp)>>

\* C5 (Degenerate pool): with n_cp = 0 and n_t >= 1 the call raises no error
\* (and returns an empty candidate set for every treatment row).
C5_DegeneratePool ==
    (ValidInput /\ n_cp = 0) =>
        /\ ~Failed
        /\ Done => dist.shape = <<n_t, 0>>

\* Whether cp_id_idx and dist pair every returned distance with the absolute
\* identifier of the pool row it is the distance to.
Aligned(ids, ds) ==
    /\ ids.shape = ds.shape
    /\ \A i \in 1..ds.shape[1], j \in 1..ds.shape[2] :
          /\ ids.a[i][j] \in 0..(n_cp - 1)
          /\ ds.a[i][j] = Metric(dist_metric, ls_t.a[i], ls_cp.a[ids.a[i][j] + 1])

\* C6 (Identifier/distance alignment): every entry (id, d) held for treatment
\* row i names a row of the input pool by its absolute identifier and d is the
\* distance between treatment row i and that row; this holds of every
\* per-chunk array accumulated, of the stacked arrays and of the result.
C6_Alignment ==
    /\ pc = "loop" => \A c \in 1..Len(dist) : Aligned(cp_id_idx[c], dist[c])
    /\ pc \in {"stacked", "done"} => Aligned(cp_id_idx, dist)

\* A result of one-row chunks that names the third pool row, whose position
\* inside its chunk is 0, for two treatment rows.
C6_Witness ==
    /\ Done /\ n_t = 2 /\ n_cp = 3 /\ n_meters_per_chunk = 1
    /\ n_matches_per_treatment = Some(2)
    /\ \E j \in 1..2 : cp_id_idx.a[1][j] = 2
    /\ \E j \in 1..2 : cp_id_idx.a[2][j] = 2

\* C7 (Configuration errors fail fast): a call with a non-positive chunk size
\* or a non-positive K (on otherwise well-formed matrices) never returns a
\* result, and fails before any chunk is processed.
C7_FailFast ==
    (n_t >= 1 /\ SameFeatures /\ (~ValidChunkSize \/ ~ValidK)) =>
        /\ ~Done
        /\ Failed => pos = 0

\* C8 (Empty treatment / shape mismatch): a call with n_t = 0, or with
\* different feature dimensionality of the two matrices, never returns a
\* result.
C8_EmptyOrMismatch ==
    (n_t = 0 \/ ~SameFeatures) => ~Done

\* The shape-mismatch half of C8 alone.
MismatchNeverReturns == ~SameFeatures => ~Done

\* C9 (All sentinel): with n_matches_per_treatment = None every treatment
\* row's result has exactly n_cp entries, sorted ascending by distance.
C9_AllSentinel ==
    (Done /\ n_matches_per_treatment = None /\ ValidInput) =>
        /\ dist.shape = <<n_t, n_cp>>
        /\ \A i \in 1..n_t : Ascending(dist.a[i]) = dist.a[i]

\* The scenario of C10: treatment [[0,0]], pool a = [1,0], b = [0,5],
\* c = [3,4] (identifiers 0, 1, 2), Euclidean metric, K = 2, C = 2.
TieScenario ==
    /\ ls_t = FromRows(<< <<0, 0>> >>, 2)
    /\ ls_cp = FromRows(<< <<1, 0>>, <<0, 5>>, <<3, 4>> >>, 2)
    /\ dist_metric = "euclidean"
    /\ n_matches_per_treatment = Some(2)
    /\ n_meters_per_chunk = 2

ChunkDist(q) ==
    cdist(ls_t, chunkRows(ls_cp, n_meters_per_chunk, (q - 1) * n_meters_per_chunk),
          dist_metric)

\* The identifiers of the q-th chunk in pool order, one copy per treatment row.
ChunkIds(q) ==
    tile(chunkIdx(ls_cp, n_meters_per_chunk, (q - 1) * n_meters_per_chunk), n_t)

\* M of the retention policy: M = min(K, C).
RetainedM == Min(K, n_meters_per_chunk)

\* C11 (Per-chunk retention policy): with M = min(K, C), every chunk of c rows
\* processed so far has appended exactly min(M, c) candidates per treatment
\* row, which are the chunk's min(M, c) smallest distances of that row; when
\* K > C or K is the sentinel nothing of the chunk is discarded; and when M is
\* not smaller than c the chunk was appended as it is, without a selection.
C11_ChunkRetention ==
    (pc = "loop" /\ ValidK /\ ValidChunkSize) =>
        \A q \in 1..Len(dist) :
            LET full == ChunkDist(q)
                c    == full.shape[2]
                kept == Min(RetainedM, c)
            IN  /\ dist[q].shape = <<n_t, kept>>
                /\ cp_id_idx[q].shape = <<n_t, kept>>
                /\ \A i \in 1..n_t :
                      Ascending(dist[q].a[i]) = SubSeq(Ascending(full.a[i]), 1, kept)
                /\ (n_matches_per_treatment = None \/ K > n_meters_per_chunk) => kept = c
                /\ RetainedM >= c => (dist[q] = full /\ cp_id_idx[q] = ChunkIds(q))

\* Two chunks are processed with K = 1 < C = 2: the first (2 rows) was cut to
\* one candidate per treatment row, the second (1 row) was appended whole.
C11_Witness ==
    /\ pc = "loop" /\ n_t = 2 /\ n_cp = 3
    /\ n_matches_per_treatment = Some(1) /\ n_meters_per_chunk = 2
    /\ Len(dist) = 2
    /\ dist[1].shape = <<2, 1>> /\ dist[2] = ChunkDist(2)

\* The number of entries of an array.
Entries(A) == A.shape[1] * A.shape[2]

\* The columns accumulated so far: of the stacked array, or of the per-chunk
\* arrays still waiting to be stacked.
AccumulatedColumns ==
    IF pc = "stacked" THEN dist.shape[2]
    ELSE SumTo([q \in 1..Len(dist) |-> dist[q].shape[2]], Len(dist))

\* Every per-chunk distance matrix, computed or already appended, has at most
\* n_t x C entries.
ChunkBuffersBounded ==
    pc = "loop" =>
        /\ ~chunksDone(ls_cp, pos) => Entries(chunked_dist) <= n_t * n_meters_per_chunk
        /\ \A q \in 1..Len(dist) :
              /\ Entries(dist[q]) <= n_t * n_meters_per_chunk
              /\ Entries(cp_id_idx[q]) <= n_t * n_meters_per_chunk

\* C12 as stated (Bounded buffers): with n_cp > C and K < n_cp, each per-chunk
\* distance matrix has at most n_t x C entries and the accumulated candidate
\* array has strictly fewer than n_cp columns, so that no array has n_t x n_cp
\* entries.
C12_BoundedBuffers ==
    (ValidInput /\ n_cp > n_meters_per_chunk /\ K < n_cp) =>
        /\ ChunkBuffersBounded
        /\ pc \in {"loop", "stacked"} => AccumulatedColumns < n_cp
        /\ pc = "stacked" =>
              (Entries(dist) # n_t * n_cp /\ Entries(cp_id_idx) # n_t * n_cp)

\* C12 (Bounded buffers), amended: with n_cp > C, each per-chunk distance
\* matrix has at most n_t x C entries, the accumulated candidate array never
\* has more than n_cp columns, and once every chunk is stacked it has strictly
\* fewer than n_cp columns exactly when K < C; with C <= K it holds all n_cp
\* columns.
C12_BoundedBuffersAmended ==
    (ValidInput /\ n_cp > n_meters_per_chunk) =>
        /\ ChunkBuffersBounded
        /\ pc \in {"loop", "stacked"} => AccumulatedColumns <= n_cp
        /\ pc = "stacked" =>
              /\ K < n_meters_per_chunk => dist.shape[2] < n_cp
              /\ K >= n_meters_per_chunk => dist.shape[2] = n_cp
              /\ cp_id_idx.shape = dist.shape

\* Three pool rows in chunks of two with K = 1: the stacked array has two
\* columns, one per chunk.
C12_Witness ==
    /\ pc = "stacked" /\ n_t = 2 /\ n_cp = 3
    /\ n_matches_per_treatment = Some(1) /\ n_meters_per_chunk = 2
    /\ dist.shape = <<2, 2>>

----------------------------------------------------------------------------
(* The chunks processed in any order: the loop of lines 17-28 with its      *)
(* iterations taken by independent workers, each output appended to the     *)
(* lists as the worker finishes, and lines 30-41 as the final merge.  In    *)
(* this specification pos holds the set of chunk starts not yet processed.  *)

\* The first pool row of every chunk the partitioner yields.
chunkStarts(X, n) == {p \in 0..(X.shape[1] - 1) : p % n = 0}

\* A call with arguments no step rejects, on a pool that is not empty.
InitAnyOrder ==
    /\ ls_t \in TreatmentInputs
    /\ ls_cp \in PoolInputs
    /\ dist_metric \in Metrics
    /\ Representable(ls_t, ls_cp, dist_metric)
    /\ n_matches_per_treatment \in KValues
    /\ n_meters_per_chunk \in ChunkSizes
    /\ ValidInput
    /\ n_cp >= 1
    /\ n_smallest = None
    /\ n_chunk_smallest = None
    /\ dist = <<>>
    /\ cp_id_idx = <<>>
    /\ pos = chunkStarts(ls_cp, n_meters_per_chunk)
    /\ pc = "start"

\* lines 8-16: clamp the two selection counts, start with empty lists.
ClampAnyOrder ==
    /\ pc = "start"
    /\ n_smallest' = nSmallest(n_matches_per_treatment, ls_cp.shape[1])
    /\ n_chunk_smallest' = nChunkSmallest(n_matches_per_treatment, n_meters_per_chunk)
    /\ dist' = <<>>
    /\ cp_id_idx' = <<>>
    /\ pc' = "loop"
    /\ UNCHANGED <<inputs, pos>>

\* A slip: a worker numbers the rows of its chunk from the number of columns
\* already accumulated instead of from the chunk's place in the pool.
ChunkAnyOrderNumberedByAccumulator ==
    /\ pc = "loop"
    /\ \E p \in pos :
          \E o \in chunkCandidates(ls_t, ls_cp, dist_metric, n_meters_per_chunk,
                                   p, n_chunk_smallest) :
              LET seen == SumTo([q \in 1..Len(dist) |-> dist[q].shape[2]], Len(dist))
                  ids  == [o[1] EXCEPT !.a =
                              [i \in 1..o[1].shape[1] |->
                                  [j \in 1..o[1].shape[2] |-> o[1].a[i][j] - p + seen]]]
              IN  /\ cp_id_idx' = Append(cp_id_idx, ids)
                  /\ dist' = Append(dist, o[2])
                  /\ pos' = pos \ {p}
    /\ UNCHANGED <<inputs, n_smallest, n_chunk_smallest, pc>>

\* lines 18-28 for any chunk not yet processed: its candidates are computed
\* from the treatment matrix and the chunk's rows and appended to the lists.
ChunkAnyOrder ==
    /\ pc = "loop"
    /\ \E p \in pos :
          \E o \in chunkCandidates(ls_t, ls_cp, dist_metric, n_meters_per_chunk,
                                   p, n_chunk_smallest) :
              /\ cp_id_idx' = Append(cp_id_idx, o[1])
              /\ dist' = Append(dist, o[2])
              /\ pos' = pos \ {p}
    /\ UNCHANGED <<inputs, n_smallest, n_chunk_smallest, pc>>

\* lines 30-31: every chunk is processed; stack the per-chunk arrays.
StackAnyOrder ==
    /\ pc = "loop"
    /\ pos = {}
    /\ ~hstackRaises(dist)
    /\ dist' = hstack(dist)
    /\ cp_id_idx' = hstack(cp_id_idx)
    /\ pc' = "stacked"
    /\ UNCHANGED <<inputs, n_smallest, n_chunk_smallest, pos>>

NextAnyOrder ==
    \/ ClampAnyOrder
    \/ ChunkAnyOrder
    \/ StackAnyOrder
    \/ GlobalSelect
    \/ GlobalKeep

SpecAnyOrder == InitAnyOrder /\ [][NextAnyOrder]_vars

\* Treatment row i as a matrix of one row.
TreatmentRow(i) == FromRows(<<ls_t.a[i]>>, ls_t.shape[2])

\* The multiset of (identifier, distance) pairs of row i of a pair of arrays,
\* as the sequence of the pairs in lexicographic order.
CandidatesOfRow(ids, ds, i) ==
    SortSeq([j \in 1..ds.shape[2] |-> <<ids.a[i][j], ds.a[i][j]>>],
            LAMBDA x, y : x[1] < y[1] \/ (x[1] = y[1] /\ x[2] < y[2]))

\* The lists (cp_id_idx, dist) processing in pool order can accumulate for
\* treatment row i alone.
SequentialLists(i) ==
    accumulated(TreatmentRow(i), ls_cp, dist_metric, n_meters_per_chunk, 0,
                nChunkSmallest(n_matches_per_treatment, n_meters_per_chunk))

\* In pool order, what a chunk step appends is a function of the treatment
\* matrix and the chunk's rows: it is one of chunkCandidates, whatever the
\* lists hold.
ChunkStepsInRelation ==
    [][(pc = "loop" /\ pc' = "loop") =>
          <<cp_id_idx'[Len(cp_id_idx')], dist'[Len(dist')]>> \in
              chunkCandidates(ls_t, ls_cp, dist_metric, n_meters_per_chunk, pos,
                              n_chunk_smallest)]_vars

\* In pool order, the distances returned for a treatment row are the
\* min(K, n_cp) smallest of the row, whatever the ties: the multiset of final
\* distances of sequential processing.
SequentialReturnsNearest ==
    (Done /\ ValidInput) =>
        \A i \in 1..n_t : Ascending(dist.a[i]) = BruteForce(i, Min(K, n_cp))

\* C13 (Chunk independence): with the chunks processed in any order, every
\* treatment row accumulates a multiset of (identifier, distance) candidates
\* that processing in pool order can accumulate, and is returned the multiset
\* of final distances that processing in pool order returns
\* (SequentialReturnsNearest).
C13_ChunkIndependence ==
    /\ pc = "stacked" =>
          \A i \in 1..n_t :
              \E acc \in SequentialLists(i) :
                  CandidatesOfRow(cp_id_idx, dist, i) =
                      CandidatesOfRow(hstack(acc[1]), hstack(acc[2]), 1)
    /\ pc = "done" =>
          \A i \in 1..n_t : Ascending(dist.a[i]) = BruteForce(i, Min(K, n_cp))

\* Three pool rows in chunks of two with K = 1, the last chunk processed
\* first: the stacked arrays start with pool row 2, then hold the one
\* candidate the first chunk kept.
C13_Witness ==
    /\ pc = "stacked" /\ n_t = 2 /\ n_cp = 3
    /\ n_matches_per_treatment = Some(1) /\ n_meters_per_chunk = 2
    /\ dist.shape = <<2, 2>>
    /\ \A i \in 1..2 : cp_id_idx.a[i][1] = 2 /\ cp_id_idx.a[i][2] \in {0, 1}

====
